---- MODULE Spec2Model ----
(***************************************************************************)
(* SmartWatts formula engine (smartwatts/rx_formula.py, topology.py,       *)
(* context.py) as a state machine.                                         *)
(*                                                                         *)
(* Physical quantities (Watts, MHz) and Python floats are exact rationals  *)
(* [n |-> numerator, d |-> denominator > 0] in lowest terms.               *)
(* The regression library (sklearn ElasticNet) is outside the repository:  *)
(* a fit is a nondeterministic choice among the regressions the call on    *)
(* rx_formula.py:141 can return (coefficients >= 0 because positive=True,  *)
(* intercept 0 when fit_intercept is False).                               *)
(***************************************************************************)
EXTENDS Integers, Sequences, FiniteSets, TLC

VARIABLES
    config,     \* SmartWattsFormulaConfig of the engine (never reassigned)
    ticks,      \* Smartwatts.ticks: OrderedDict timestamp -> {target -> report}
    sensor,     \* Smartwatts.sensor
    models,     \* Smartwatts.models: layer frequency -> PowerModel
    delivered,  \* per observer: reports passed to on_next by the last process_report
    formula_reports, \* the formula_reports list returned to the last process_report
    raised,     \* exception that left the last process_report ("none" if it returned)
    processed,  \* history: [timestamp, number of power reports, layer a sample was
                \* stored into] of every tick popped
    seen,       \* history: timestamps of the reports ingested so far
    overwrote,  \* history: the last report replaced a buffered report
    capping,    \* a capping of targets against one global power: arguments, results
    replay,     \* a run of the engine and its repetition on a fresh engine
    training    \* the last operation applied to a power model on its own

vars == <<config, ticks, sensor, models, delivered, formula_reports, raised,
          processed, seen, overwrote, capping, replay, training>>

-----------------------------------------------------------------------------
(* Exact rational arithmetic *)

Abs(x) == IF x < 0 THEN -x ELSE x

RECURSIVE Gcd(_, _)
Gcd(a, b) == IF b = 0 THEN a ELSE Gcd(b, a % b)

\* n/d with d > 0, in lowest terms
Rat(n, d) == LET g == Gcd(Abs(n), d) IN [n |-> n \div g, d |-> d \div g]

RInt(k) == [n |-> k, d |-> 1]
RZero == RInt(0)
RAdd(a, b) == Rat(a.n * b.d + b.n * a.d, a.d * b.d)
RSub(a, b) == Rat(a.n * b.d - b.n * a.d, a.d * b.d)
RMul(a, b) == Rat(a.n * b.n, a.d * b.d)
\* a / b for b # 0
RDiv(a, b) == IF b.n > 0 THEN Rat(a.n * b.d, a.d * b.n)
                         ELSE Rat(-(a.n * b.d), a.d * (-b.n))
RLt(a, b) == a.n * b.d < b.n * a.d
RLe(a, b) == a.n * b.d <= b.n * a.d
RAbs(a) == [n |-> Abs(a.n), d |-> a.d]
\* int(x) of Python for x >= 0
RTrunc(a) == a.n \div a.d

RECURSIVE RSum(_)
RSum(s) == IF s = <<>> THEN RZero ELSE RAdd(Head(s), RSum(Tail(s)))

\* math.ldexp(x, -k) = x * 2^-k
RECURSIVE LdexpNeg(_, _)
LdexpNeg(x, k) ==
    IF k = 0 THEN x
    ELSE IF x.n % 2 = 0 THEN LdexpNeg([n |-> x.n \div 2, d |-> x.d], k - 1)
    ELSE LdexpNeg([n |-> x.n, d |-> x.d * 2], k - 1)

-----------------------------------------------------------------------------
(* Constants of rx_formula.py *)

RAPL_GROUP == "rapl"
GLOBAL_GROUP == "global"
ALL_TARGET == "all"
APERF_EVENT == "APERF"
MPERF_EVENT == "MPERF"
\* process_report: len(self.ticks) > 2 in real_time mode, > 5 otherwise
RealTimeThreshold == 2
BatchThreshold == 5
\* ldexp(event_value, -32)
RaplShift == 32

\* Event names in the order sorted() gives them (ASCII: upper case first)
EventOrder == <<"CYCLES", "INSTR", "time_enabled">>
\* names for which event_name.startswith(TIME_EVENT_PREFIX) is true
TimeEvents == {"time_enabled"}

-----------------------------------------------------------------------------
(* Bounds of the model *)

\* timestamps of the input reports are 1..MaxTime
MaxTime == 7
\* number of ticks popped from the buffer in one run
MaxProcessed == 2
\* a report arrives at most MaxDelay ticks late, and the sensor skips at
\* most MaxSkip - 1 ticks
MaxDelay == 1
MaxSkip == 2
\* observers subscribed to the formula
NumObservers == 2
\* a fit returns coefficients in 0..MaxCoef
MaxCoef == 1

-----------------------------------------------------------------------------
(* topology.py *)

\* CPUTopology.__init__: the arguments are in W and MHz; bclk and the
\* ratios are stored divided by 100
CPUTopology(tdp, freq_bclk, ratio_min, ratio_base, ratio_max) ==
    [tdp |-> tdp,
     freq_bclk |-> Rat(freq_bclk, 100),
     ratio_min |-> Rat(ratio_min, 100),
     ratio_base |-> Rat(ratio_base, 100),
     ratio_max |-> Rat(ratio_max, 100)]

get_min_frequency(topo) == RMul(topo.freq_bclk, topo.ratio_min)
get_base_frequency(topo) == RMul(topo.freq_bclk, topo.ratio_base)
get_max_frequency(topo) == RMul(topo.freq_bclk, topo.ratio_max)

\* list(range(start, stop, step)) for step > 0
RECURSIVE PyRange(_, _, _)
PyRange(start, stop, step) ==
    IF start >= stop THEN <<>> ELSE <<start>> \o PyRange(start + step, stop, step)

get_supported_frequencies(topo) ==
    PyRange(RTrunc(get_min_frequency(topo)),
            RTrunc(get_max_frequency(topo)) + 1,
            RTrunc(topo.freq_bclk))

-----------------------------------------------------------------------------
(* rx_formula.py: History *)

History(max_length) == [max_length |-> max_length, X |-> <<>>, y |-> <<>>]

DequeAppendKeepingOldest(q, maxlen, x) ==
    IF Len(q) >= maxlen THEN q ELSE Append(q, x)

\* deque(maxlen=n).append: the oldest element is dropped when full
DequeAppend(q, maxlen, x) ==
    IF maxlen = 0 THEN q
    ELSE IF Len(q) = maxlen THEN Append(Tail(q), x)
    ELSE Append(q, x)

HistoryLen(h) == Len(h.X)

store_report(h, power_reference, events_value) ==
    [h EXCEPT !.X = DequeAppend(h.X, h.max_length, events_value),
              !.y = DequeAppend(h.y, h.max_length, power_reference)]

-----------------------------------------------------------------------------
(* rx_formula.py: PowerModel *)

\* Regression(): an ElasticNet that has not been fitted (fit_intercept
\* defaults to True)
UnfittedRegression ==
    [fitted |-> FALSE, fit_intercept |-> TRUE, coef |-> <<>>, intercept |-> 0]

\* 'uninitialized', and sha1(dumps(model)).hexdigest(): the digest is a
\* function of the pickled regression, and different pickles give
\* different digests
UninitializedHash == [uninitialized |-> TRUE, of |-> UnfittedRegression]
Sha1DumpsSalted(regression) ==
    [uninitialized |-> FALSE, of |-> regression, salt |-> replay.run]

Sha1Dumps(regression) == [uninitialized |-> FALSE, of |-> regression]

PowerModel(frequency, history_window_size) ==
    [frequency |-> frequency,
     model |-> UnfittedRegression,
     hash |-> UninitializedHash,
     history |-> History(history_window_size),
     id |-> 0]

\* the intercepts a fit with fit_intercept=True may return: below the
\* accepted range, its lower end, inside, and its excluded upper end
InterceptValues(max_intercept) == {-1, 0, 2, max_intercept}

\* Regression(fit_intercept=.., positive=True).fit(X, y): one regression
\* among those the library can return for n features
FitResults(fit_intercept, n, max_intercept) ==
    { [fitted |-> TRUE, fit_intercept |-> fit_intercept, coef |-> c, intercept |-> i] :
        c \in [1..n -> 0..MaxCoef],
        i \in (IF fit_intercept THEN InterceptValues(max_intercept) ELSE {0}) }

\* the rows of X have one length (otherwise fit raises ValueError)
Homogeneous(X) == \A i \in 1..Len(X) : Len(X[i]) = Len(X[1])

InterceptRejectedAbove(intercept, min_intercept, max_intercept) ==
    ~(intercept < max_intercept)

InterceptRejectedBelow(intercept, min_intercept, max_intercept) ==
    ~(min_intercept <= intercept)

\* `not min_intercept <= model.intercept_ < max_intercept`
InterceptRejected(intercept, min_intercept, max_intercept) ==
    ~(min_intercept <= intercept /\ intercept < max_intercept)

AdoptSkippingId(pm, m) ==
    [pm EXCEPT !.model = m, !.hash = Sha1Dumps(m), !.id = pm.id + 2]

AdoptKeepingId(pm, m) ==
    [pm EXCEPT !.model = m, !.hash = Sha1Dumps(m)]

\* self.model = model; self.hash = sha1(dumps(self.model)).hexdigest();
\* self.id += 1
Adopt(pm, m) ==
    [pm EXCEPT !.model = m, !.hash = Sha1Dumps(m), !.id = pm.id + 1]

FitInterceptAlways(history) == TRUE

\* fit_intercept = len(self.history) == self.history.max_length
FitIntercept(history) == HistoryLen(history) = history.max_length

learn_power_model_eager(pm, min_samples, min_intercept, max_intercept) ==
    IF HistoryLen(pm.history) = 0 \/ ~Homogeneous(pm.history.X)
    THEN {[pm |-> pm, raised |-> "ValueError", candidate |-> UnfittedRegression]}
    ELSE LET fit_intercept == FitIntercept(pm.history)
         IN { IF InterceptRejected(m.intercept, min_intercept, max_intercept)
              THEN [pm |-> pm, raised |-> "none", candidate |-> m]
              ELSE [pm |-> Adopt(pm, m), raised |-> "none", candidate |-> m] :
              m \in FitResults(fit_intercept, Len(pm.history.X[1]), max_intercept) }

\* learn_power_model: the set of [pm, raised, candidate] it can end with;
\* candidate is the regression the fit returned (the unfitted one if no fit
\* was made)
learn_power_model(pm, min_samples, min_intercept, max_intercept) ==
    IF HistoryLen(pm.history) < min_samples
    THEN {[pm |-> pm, raised |-> "none", candidate |-> UnfittedRegression]}
    ELSE IF ~Homogeneous(pm.history.X)
    THEN {[pm |-> pm, raised |-> "ValueError", candidate |-> UnfittedRegression]}
    ELSE LET fit_intercept == FitIntercept(pm.history)
         IN { IF InterceptRejected(m.intercept, min_intercept, max_intercept)
              THEN [pm |-> pm, raised |-> "none", candidate |-> m]
              ELSE [pm |-> Adopt(pm, m), raised |-> "none", candidate |-> m] :
              m \in FitResults(fit_intercept, Len(pm.history.X[1]), max_intercept) }

\* [value for _, value in sorted(events.items())]
extract_events_value(events) ==
    LET names == SelectSeq(EventOrder, LAMBDA e : e \in DOMAIN events)
    IN [i \in 1..Len(names) |-> events[names[i]]]

store_report_in_history_dropped(pm, power_reference, events) == pm

store_report_in_history(pm, power_reference, events) ==
    [pm EXCEPT !.history = store_report(pm.history, power_reference,
                                        extract_events_value(events))]

\* intercept_ + X . coef_
RECURSIVE Dot(_, _)
Dot(coef, x) ==
    IF coef = <<>> THEN 0 ELSE Head(coef) * Head(x) + Dot(Tail(coef), Tail(x))

compute_power_estimation_unchecked(pm, events) ==
    LET x == extract_events_value(events)
    IN IF ~pm.model.fitted THEN [raised |-> "none", value |-> RZero]
       ELSE IF Len(x) # Len(pm.model.coef) THEN [raised |-> "ValueError", value |-> RZero]
       ELSE [raised |-> "none", value |-> RInt(pm.model.intercept + Dot(pm.model.coef, x))]

\* model.predict([...])[0]: NotFittedError before the first fit,
\* ValueError when the number of features is not the fitted one
compute_power_estimation(pm, events) ==
    LET x == extract_events_value(events)
    IN IF ~pm.model.fitted THEN [raised |-> "NotFittedError", value |-> RZero]
       ELSE IF Len(x) # Len(pm.model.coef) THEN [raised |-> "ValueError", value |-> RZero]
       ELSE [raised |-> "none", value |-> RInt(pm.model.intercept + Dot(pm.model.coef, x))]

cap_power_estimation_raw(pm, raw_target_power, raw_global_power) ==
    LET ratio == IF RLt(RZero, raw_global_power) /\ RLt(RZero, raw_target_power)
                 THEN RDiv(raw_target_power, raw_global_power)
                 ELSE RZero
        power == IF RLt(RZero, raw_target_power) THEN raw_target_power ELSE RZero
    IN [power |-> power, ratio |-> ratio]

cap_power_estimation_unclamped(pm, raw_target_power, raw_global_power) ==
    LET target_power == RSub(raw_target_power, RInt(pm.model.intercept))
        global_power == RSub(raw_global_power, RInt(pm.model.intercept))
        ratio == IF RLt(RZero, global_power) /\ RLt(RZero, target_power)
                 THEN RDiv(target_power, global_power)
                 ELSE RZero
    IN [power |-> target_power, ratio |-> ratio]

cap_power_estimation(pm, raw_target_power, raw_global_power) ==
    LET target_power == RSub(raw_target_power, RInt(pm.model.intercept))
        global_power == RSub(raw_global_power, RInt(pm.model.intercept))
        ratio == IF RLt(RZero, global_power) /\ RLt(RZero, target_power)
                 THEN RDiv(target_power, global_power)
                 ELSE RZero
        power == IF RLt(RZero, target_power) THEN target_power ELSE RZero
    IN [power |-> power, ratio |-> ratio]

apply_intercept_share_whole(pm, target_power, target_ratio) ==
    RAdd(target_power, RInt(pm.model.intercept))

apply_intercept_share(pm, target_power, target_ratio) ==
    LET intercept == RMul(target_ratio, RInt(pm.model.intercept))
    IN RAdd(target_power, intercept)

-----------------------------------------------------------------------------
(* rx_formula.py: Smartwatts, extraction of the events groups *)

\* An input report is [timestamp, sensor, target, rapl, msr, core]; a group
\* is [socket |-> the group has rows for config.socket_domain_value,
\*     rows |-> one function event name -> counter per core of the socket]
NoGroup == [socket |-> FALSE, rows |-> <<>>]
Group(rows) == [socket |-> TRUE, rows |-> rows]

\* the columns of the group's DataFrame
Columns(group) == IF group.rows = <<>> THEN {} ELSE DOMAIN group.rows[1]

RECURSIVE SumColumn(_, _)
SumColumn(rows, event) ==
    IF rows = <<>> THEN 0 ELSE Head(rows)[event] + SumColumn(Tail(rows), event)

gen_rapl_events_group_per_ms(system_report) ==
    IF ~system_report.rapl.socket
    THEN [raised |-> "SmartWattsException", value |-> RZero]
    ELSE IF config.rapl_event \notin Columns(system_report.rapl)
    THEN [raised |-> "SmartWattsException", value |-> RZero]
    ELSE LET event_value == system_report.rapl.rows[1][config.rapl_event]
             energy == RDiv(LdexpNeg(RInt(event_value), RaplShift),
                            RInt(config.reports_frequency))
         IN [raised |-> "none", value |-> energy]

\* _gen_rapl_events_group: [raised, value]; value is the power in W
gen_rapl_events_group(system_report) ==
    IF ~system_report.rapl.socket
    THEN [raised |-> "SmartWattsException", value |-> RZero]
    ELSE IF config.rapl_event \notin Columns(system_report.rapl)
    THEN [raised |-> "SmartWattsException", value |-> RZero]
    ELSE LET event_value == system_report.rapl.rows[1][config.rapl_event]
             energy == RDiv(LdexpNeg(RInt(event_value), RaplShift),
                            Rat(config.reports_frequency, 1000))
         IN [raised |-> "none", value |-> energy]

\* _gen_msr_events_group: [raised, value]; value maps each column to its
\* mean over the cores
gen_msr_events_group(system_report) ==
    IF ~system_report.msr.socket
    THEN [raised |-> "SmartWattsException", value |-> <<>>]
    ELSE [raised |-> "none",
          value |-> [e \in Columns(system_report.msr) |->
                        Rat(SumColumn(system_report.msr.rows, e),
                            Len(system_report.msr.rows))]]

gen_core_events_group_lenient(report) ==
    [raised |-> "none",
     value |-> [e \in Columns(report.core) \ TimeEvents |->
                   SumColumn(report.core.rows, e)]]

\* _gen_core_events_group: [raised, value]; value maps each column that is
\* not a time event to its sum over the cores
gen_core_events_group(report) ==
    IF ~report.core.socket
    THEN [raised |-> "SmartWattsException", value |-> <<>>]
    ELSE [raised |-> "none",
          value |-> [e \in Columns(report.core) \ TimeEvents |->
                        SumColumn(report.core.rows, e)]]

\* d[key] of a defaultdict(int)
DefaultGet(d, key) == IF key \in DOMAIN d THEN d[key] ELSE 0

\* _gen_agg_core_report_from_running_targets over the tick's remaining
\* target -> report pairs: [raised, value]
RECURSIVE gen_agg_core_report_from_running_targets(_)
gen_agg_core_report_from_running_targets(targets_report) ==
    IF targets_report = <<>> THEN [raised |-> "none", value |-> <<>>]
    ELSE LET rest == gen_agg_core_report_from_running_targets(
                         SubSeq(targets_report, 1, Len(targets_report) - 1))
             last == gen_core_events_group(targets_report[Len(targets_report)].report)
         IN IF rest.raised # "none" THEN rest
            ELSE IF last.raised # "none" THEN last
            ELSE [raised |-> "none",
                  value |-> [e \in DOMAIN rest.value \cup DOMAIN last.value |->
                                DefaultGet(rest.value, e) + DefaultGet(last.value, e)]]

-----------------------------------------------------------------------------
(* rx_formula.py: Smartwatts, the model registry *)

SeqToSet(s) == {s[i] : i \in 1..Len(s)}

\* _gen_models_dict: one PowerModel per supported frequency
gen_models_dict(cfg) ==
    [freq \in SeqToSet(get_supported_frequencies(cfg.cpu_topology)) |->
        PowerModel(freq, cfg.history_window_size)]

\* the keys of self.models in insertion (ascending) order
ModelKeys == get_supported_frequencies(config.cpu_topology)

\* compute_pkg_frequency: [finite, value]. The means are numpy floats, so
\* a zero MPERF gives inf or nan (finite = FALSE), which compares False
\* with every layer
compute_pkg_frequency(system_msr) ==
    LET aperf == IF APERF_EVENT \in DOMAIN system_msr THEN system_msr[APERF_EVENT] ELSE RZero
        mperf == IF MPERF_EVENT \in DOMAIN system_msr THEN system_msr[MPERF_EVENT] ELSE RZero
    IN IF mperf.n = 0 THEN [finite |-> FALSE, value |-> RZero]
       ELSE [finite |-> TRUE,
             value |-> RDiv(RMul(get_base_frequency(config.cpu_topology), aperf), mperf)]

get_frequency_layer_lowest(keys, frequency) == Head(keys)

\* _get_frequency_layer: the scan over the keys of self.models
RECURSIVE ScanLayers(_, _, _)
ScanLayers(keys, frequency, last_layer_freq) ==
    IF keys = <<>> THEN last_layer_freq
    ELSE IF frequency.finite /\ RLt(frequency.value, RInt(Head(keys))) THEN last_layer_freq
    ELSE ScanLayers(Tail(keys), frequency, Head(keys))

get_frequency_layer(keys, frequency) == ScanLayers(keys, frequency, 0)

\* get_power_model: [raised, layer]; self.models[layer] raises KeyError
\* when the layer is no key of self.models
get_power_model(system_core) ==
    LET layer == get_frequency_layer(ModelKeys, compute_pkg_frequency(system_core))
    IN [raised |-> IF layer \in DOMAIN models THEN "none" ELSE "KeyError",
        layer |-> layer]

-----------------------------------------------------------------------------
(* rx_formula.py: Smartwatts, reports *)

\* the 'formula' metadata: the rapl event name or a model hash
RaplFormula(rapl_event) == [name |-> rapl_event, hash |-> UninitializedHash]
ModelFormula(hash) == [name |-> "model", hash |-> hash]

gen_power_report(timestamp, sens, target, formula, raw_power, error, power, ratio) ==
    [timestamp |-> timestamp, sensor |-> sens, target |-> target, power |-> power,
     formula |-> formula, ratio |-> ratio, predict |-> raw_power, error |-> error]

gen_formula_report(timestamp, sens, pkg_frequency, pm, error) ==
    [timestamp |-> timestamp, sensor |-> sens, target |-> pm.hash,
     layer_frequency |-> pm.frequency, pkg_frequency |-> pkg_frequency,
     samples |-> HistoryLen(pm.history), id |-> pm.id, error |-> error,
     intercept |-> pm.model.intercept, coef |-> pm.model.coef]

-----------------------------------------------------------------------------
(* rx_formula.py: Smartwatts._process_oldest_tick *)

\* index of the 'all' entry of a tick's target -> report pairs, 0 if none
RECURSIVE IndexOf(_, _)
IndexOf(reports, target) ==
    IF reports = <<>> THEN 0
    ELSE IF reports[Len(reports)].target = target THEN Len(reports)
    ELSE IndexOf(SubSeq(reports, 1, Len(reports) - 1), target)

RemoveAt(s, i) == SubSeq(s, 1, i - 1) \o SubSeq(s, i + 1, Len(s))

\* one pass of the per-target loop: [raised, report]
TargetPowerReport(timestamp, sens, pm, entry, raw_global_power) ==
    LET target_core == gen_core_events_group(entry.report).value
        est == compute_power_estimation(pm, target_core)
        raw_target_power == est.value
        capped == cap_power_estimation(pm, raw_target_power, raw_global_power)
        target_power == apply_intercept_share(pm, capped.power, capped.ratio)
    IN [raised |-> est.raised,
        report |-> gen_power_report(timestamp, sens, entry.target, ModelFormula(pm.hash),
                                    raw_target_power,
                                    RAbs(RSub(target_power, raw_global_power)),
                                    target_power, capped.ratio)]

ErrorReachesThreshold(model_error) == RLe(config.error_threshold, model_error)

\* model_error > self.config.error_threshold
ErrorAboveThreshold(model_error) == RLt(config.error_threshold, model_error)

\* the tail of _process_oldest_tick once the global power is predicted
AttributeTick(timestamp, sens, layer, rest, rapl_power, global_core, pkg_frequency, raw_global_power, rapl_report) ==
    LET pm == models[layer]
        model_error == RAbs(RSub(rapl_power, raw_global_power))
        global_report == gen_power_report(timestamp, sens, GLOBAL_GROUP, ModelFormula(pm.hash),
                                          raw_global_power, model_error, raw_global_power,
                                          RInt(1))
        per_target == [i \in 1..Len(rest) |->
                          TargetPowerReport(timestamp, sens, pm, rest[i], raw_global_power)]
        power_reports == <<rapl_report, global_report>> \o
                         [i \in 1..Len(rest) |-> per_target[i].report]
        stored == store_report_in_history(pm, rapl_power, global_core)
        learnt == IF ErrorAboveThreshold(model_error)
                  THEN learn_power_model(stored, config.min_samples_required, 0,
                                         config.cpu_topology.tdp)
                  ELSE {[pm |-> stored, raised |-> "none", candidate |-> UnfittedRegression]}
    IN IF \E i \in 1..Len(rest) : per_target[i].raised # "none"
       THEN {[models |-> models, power_reports |-> <<>>, formula_reports |-> <<>>,
              raised |-> "ValueError", stored |-> 0]}
       ELSE { IF o.raised # "none"
              THEN [models |-> [models EXCEPT ![layer] = o.pm], power_reports |-> <<>>,
                    formula_reports |-> <<>>, raised |-> o.raised, stored |-> layer]
              ELSE [models |-> [models EXCEPT ![layer] = o.pm],
                    power_reports |-> power_reports,
                    formula_reports |-> <<gen_formula_report(timestamp, sens, pkg_frequency,
                                                             o.pm, model_error)>>,
                    raised |-> "none", stored |-> layer] : o \in learnt }

MissingReferenceRaises ==
    {[models |-> models, power_reports |-> <<>>, formula_reports |-> <<>>,
      raised |-> "KeyError", stored |-> 0]}

NoRunningTargetIgnored(global_core) == FALSE

\* `not global_core`: no core event of a running target
NoRunningTarget(global_core) == DOMAIN global_core = {}

\* `except KeyError` of hwpc_reports.pop('all'): the empty lists are returned
MissingReference ==
    {[models |-> models, power_reports |-> <<>>, formula_reports |-> <<>>,
      raised |-> "none", stored |-> 0]}

\* _process_oldest_tick on the popped (timestamp, hwpc_reports): the set of
\* [models, power_reports, formula_reports, raised, stored] it can end with,
\* stored the layer of the model store_report_in_history was called on (0: none)
process_oldest_tick(timestamp, hwpc_reports, sens) ==
    LET Abort(exc) == {[models |-> models, power_reports |-> <<>>,
                        formula_reports |-> <<>>, raised |-> exc, stored |-> 0]}
        all == IndexOf(hwpc_reports, ALL_TARGET)
    IN IF all = 0 THEN MissingReference
       ELSE
       LET global_report == hwpc_reports[all].report
           rest == RemoveAt(hwpc_reports, all)
           rapl == gen_rapl_events_group(global_report)
           avg_msr == gen_msr_events_group(global_report)
           global_core == gen_agg_core_report_from_running_targets(rest)
           rapl_power == rapl.value
           rapl_report == gen_power_report(timestamp, sens, RAPL_GROUP,
                                           RaplFormula(config.rapl_event), RZero, RZero,
                                           rapl_power, RInt(1))
           Return == {[models |-> models, power_reports |-> <<rapl_report>>,
                       formula_reports |-> <<>>, raised |-> "none", stored |-> 0]}
       IN IF rapl.raised # "none" THEN Abort(rapl.raised)
          ELSE IF avg_msr.raised # "none" THEN Abort(avg_msr.raised)
          ELSE IF global_core.raised # "none" THEN Abort(global_core.raised)
          ELSE IF NoRunningTarget(global_core.value) THEN Return
          ELSE
          LET pkg_frequency == compute_pkg_frequency(avg_msr.value)
              found == get_power_model(avg_msr.value)
          IN IF found.raised # "none" THEN Abort(found.raised)
             ELSE
             LET pm == models[found.layer]
                 est == compute_power_estimation(pm, global_core.value)
             IN IF est.raised = "NotFittedError"
                THEN { [models |-> [models EXCEPT ![found.layer] = o.pm],
                        power_reports |-> IF o.raised = "none" THEN <<rapl_report>> ELSE <<>>,
                        formula_reports |-> <<>>,
                        raised |-> o.raised, stored |-> found.layer] :
                       o \in learn_power_model(
                                store_report_in_history(pm, rapl_power, global_core.value),
                                config.min_samples_required, 0, config.cpu_topology.tdp) }
                ELSE IF est.raised # "none" THEN Abort(est.raised)
                ELSE AttributeTick(timestamp, sens, found.layer, rest, rapl_power,
                                   global_core.value, pkg_frequency, est.value, rapl_report)

-----------------------------------------------------------------------------
(* rx_formula.py: Smartwatts.process_report *)

Observers == 1..NumObservers

UpdateTickAppending(reports, report) ==
    Append(reports, [target |-> report.target, report |-> report])

\* self.ticks.setdefault(timestamp, {}).update({target: report}) on the
\* insertion-ordered dictionaries
UpdateTick(reports, report) ==
    LET i == IndexOf(reports, report.target)
        entry == [target |-> report.target, report |-> report]
    IN IF i = 0 THEN Append(reports, entry) ELSE [reports EXCEPT ![i] = entry]

TickIndex(tks, timestamp) ==
    IF \E i \in 1..Len(tks) : tks[i].timestamp = timestamp
    THEN CHOOSE i \in 1..Len(tks) : tks[i].timestamp = timestamp
    ELSE 0

InsertReport(tks, report) ==
    LET i == TickIndex(tks, report.timestamp)
    IN IF i = 0
       THEN Append(tks, [timestamp |-> report.timestamp, reports |-> UpdateTick(<<>>, report)])
       ELSE [tks EXCEPT ![i].reports = UpdateTick(tks[i].reports, report)]

\* self.ticks[timestamp] exists and holds a report of the target
Buffered(tks, timestamp, target) ==
    /\ TickIndex(tks, timestamp) # 0
    /\ IndexOf(tks[TickIndex(tks, timestamp)].reports, target) # 0

\* the length of self.ticks above which the oldest tick is processed
TickThreshold == IF config.real_time_mode THEN RealTimeThreshold ELSE BatchThreshold

ProcessingTriggeredAtThreshold(tks) == Len(tks) >= TickThreshold

ProcessingTriggeredLate(tks) == Len(tks) > TickThreshold + 1

\* len(self.ticks) > 2 (real time) or > 5
ProcessingTriggered(tks) == Len(tks) > TickThreshold

\* submit_reports: every observer gets every report, in order
submit_reports(reports) == [ob \in Observers |-> reports]

\* process_report on the engine
process_report(report) ==
    LET inserted == InsertReport(ticks, report)
    IN /\ sensor' = report.sensor
       /\ seen' = seen \cup {report.timestamp}
       /\ overwrote' = Buffered(ticks, report.timestamp, report.target)
       /\ UNCHANGED <<config, capping, training>>
       /\ IF ProcessingTriggered(inserted)
          THEN \E o \in process_oldest_tick(Head(inserted).timestamp, Head(inserted).reports,
                                            report.sensor) :
                  /\ ticks' = Tail(inserted)
                  /\ models' = o.models
                  /\ raised' = o.raised
                  /\ formula_reports' = o.formula_reports
                  /\ delivered' = submit_reports(o.power_reports)
                  /\ processed' = Append(processed,
                                         [timestamp |-> Head(inserted).timestamp,
                                          outputs |-> Len(o.power_reports),
                                          stored |-> o.stored])
          ELSE /\ ticks' = inserted
               /\ raised' = "none"
               /\ formula_reports' = <<>>
               /\ delivered' = submit_reports(<<>>)
               /\ UNCHANGED <<models, processed>>

\* a call of process_report by the source the engine is subscribed to
ProcessReport(report) == process_report(report) /\ UNCHANGED replay

-----------------------------------------------------------------------------
(* Configurations and input reports *)

\* SmartWattsFormulaConfig: the defaults of context.py (error threshold 2 W,
\* reports every 2 ms), a TDP of 125 W as in the tests, and a topology
\* with the frequency layers 1900 and 2000 MHz
Topology == CPUTopology(125, 10000, 1900, 2000, 2000)

Config(real_time_mode, min_samples_required, history_window_size) ==
    [rapl_event |-> "RAPL_ENERGY_PKG",
     min_samples_required |-> min_samples_required,
     history_window_size |-> history_window_size,
     cpu_topology |-> Topology,
     real_time_mode |-> real_time_mode,
     error_threshold |-> RInt(2),
     reports_frequency |-> 2]

\* the report of target 'all': RAPL counter of the socket, APERF and MPERF
\* of one core
HwpcAll(timestamp, counter, aperf, mperf) ==
    [timestamp |-> timestamp, sensor |-> "sensor", target |-> ALL_TARGET,
     rapl |-> Group(<<[RAPL_ENERGY_PKG |-> counter, time_enabled |-> 1]>>),
     msr |-> Group(<<[APERF |-> aperf, MPERF |-> mperf]>>),
     core |-> NoGroup]

\* the report of a running target: one row of core events per core
HwpcTarget(timestamp, target, rows) ==
    [timestamp |-> timestamp, sensor |-> "sensor", target |-> target,
     rapl |-> NoGroup, msr |-> NoGroup, core |-> Group(rows)]

MaxSeen == IF seen = {} THEN 0 ELSE CHOOSE t \in seen : \A u \in seen : u <= t

\* no target has been capped
NoCapping == [intercept |-> 0, raw_global |-> 0, raw_targets |-> <<>>, out |-> <<>>]

\* the first run of an engine, nothing fed yet
NoReplay == [run |-> 1, fed |-> <<>>, trace |-> <<>>, pos |-> 0, fits |-> {}]

\* no operation has been applied to a model on its own
NoTraining == [op |-> "none", candidate |-> UnfittedRegression, dropped |-> FALSE]

InitWith(configs) ==
    /\ capping = NoCapping
    /\ replay = NoReplay
    /\ training = NoTraining
    /\ config \in configs
    /\ ticks = <<>>
    /\ sensor = "None"
    /\ models = gen_models_dict(config)
    /\ delivered = submit_reports(<<>>)
    /\ formula_reports = <<>>
    /\ raised = "none"
    /\ processed = <<>>
    /\ seen = {}
    /\ overwrote = FALSE

\* RAPL counters: 2^26 (125/16 W at 2 ms) and 2^23 (125/128 W)
HighCounter == 2^26
LowCounter == 2^23

\* the reports of tick t: 'all' (a high RAPL counter on odd ticks, a low one
\* on even ticks), t1 on one core and t2 on two cores
Reports ==
    {HwpcAll(t, IF t % 2 = 1 THEN HighCounter ELSE LowCounter, 1, 1) : t \in 1..MaxTime}
    \cup {HwpcTarget(t, "t1", <<[CYCLES |-> 1, time_enabled |-> 1]>>) : t \in 1..MaxTime}
    \cup {HwpcTarget(t, "t2", <<[CYCLES |-> 1, time_enabled |-> 1],
                               [CYCLES |-> 1, time_enabled |-> 1]>>) : t \in 1..MaxTime}

\* the run goes on until MaxProcessed ticks are processed
Running == Len(processed) < MaxProcessed

\* the sensor sends the reports of a tick before those of the next tick
InOrder(report) ==
    report.timestamp \in {MaxSeen, MaxSeen + 1} \cap 1..MaxTime

Init == InitWith({Config(TRUE, 1, 1), Config(TRUE, 1, 2)})

Next == \E r \in Reports : Running /\ InOrder(r) /\ ProcessReport(r)

Spec == Init /\ [][Next]_vars

-----------------------------------------------------------------------------
(* The tick buffer in both modes, reports in order *)

BufferReports ==
    {HwpcAll(t, HighCounter, 1, 1) : t \in 1..MaxTime}
    \cup {HwpcTarget(t, "t1", <<[CYCLES |-> 1, time_enabled |-> 1]>>) : t \in 1..MaxTime}

InitBuffer == InitWith({Config(TRUE, 1, 1), Config(FALSE, 1, 1)})

NextBuffer == \E r \in BufferReports : Running /\ InOrder(r) /\ ProcessReport(r)

SpecBuffer == InitBuffer /\ [][NextBuffer]_vars

-----------------------------------------------------------------------------
(* The tick buffer in real time mode under late, skipped and repeated reports *)

JitterReports ==
    {HwpcAll(t, c, 1, 1) : t \in 1..MaxTime, c \in {HighCounter, LowCounter}}
    \cup {HwpcTarget(t, "t1", <<[CYCLES |-> 1, time_enabled |-> 1]>>) : t \in 1..MaxTime}

Jitter(report) ==
    report.timestamp \in ((MaxSeen - MaxDelay)..(MaxSeen + MaxSkip)) \cap 1..MaxTime

InitJitter == InitWith({Config(TRUE, 1, 1)})

NextJitter == \E r \in JitterReports : Running /\ Jitter(r) /\ ProcessReport(r)

SpecJitter == InitJitter /\ [][NextJitter]_vars

-----------------------------------------------------------------------------
(* The choice of the frequency layer: layers 1900, 2000 and 2100 MHz, base
   frequency 2000 MHz, package frequencies 1800, 1950, 2050 and 2100 MHz *)

LayerTopology == CPUTopology(125, 10000, 1900, 2000, 2100)

LayerReports ==
    {HwpcAll(t, HighCounter, aperf, 40) : t \in 1..MaxTime, aperf \in {36, 39, 41, 42}}
    \cup {HwpcTarget(t, "t1", <<[CYCLES |-> 1, time_enabled |-> 1]>>) : t \in 1..MaxTime}

InitLayer == InitWith({[Config(TRUE, 1, 1) EXCEPT !.cpu_topology = LayerTopology]})

NextLayer == \E r \in LayerReports : Running /\ InOrder(r) /\ ProcessReport(r)

SpecLayer == InitLayer /\ [][NextLayer]_vars

-----------------------------------------------------------------------------
(* Reports with a missing index: no RAPL group for the socket, no column of
   the RAPL event, no MSR group for the socket, no CORE group for the socket *)

MissingReports ==
    {HwpcAll(t, HighCounter, 1, 1) : t \in 1..MaxTime}
    \cup {[HwpcAll(t, HighCounter, 1, 1) EXCEPT !.rapl = NoGroup] : t \in 1..MaxTime}
    \cup {[HwpcAll(t, HighCounter, 1, 1) EXCEPT !.rapl = Group(<<[time_enabled |-> 1]>>)] :
              t \in 1..MaxTime}
    \cup {[HwpcAll(t, HighCounter, 1, 1) EXCEPT !.msr = NoGroup] : t \in 1..MaxTime}
    \cup {HwpcTarget(t, "t1", <<[CYCLES |-> 1, time_enabled |-> 1]>>) : t \in 1..MaxTime}
    \cup {[HwpcTarget(t, "t1", <<[CYCLES |-> 1, time_enabled |-> 1]>>) EXCEPT !.core = NoGroup] :
              t \in 1..MaxTime}

InitMissing == InitWith({Config(TRUE, 1, 1)})

NextMissing == \E r \in MissingReports : Running /\ InOrder(r) /\ ProcessReport(r)

SpecMissing == InitMissing /\ [][NextMissing]_vars

-----------------------------------------------------------------------------
(* The tick buffer in both modes when a report can arrive after its tick was
   processed: up to TickThreshold ticks late *)

LateReports ==
    {HwpcAll(t, HighCounter, 1, 1) : t \in 1..MaxTime}
    \cup {HwpcTarget(t, "t1", <<[CYCLES |-> 1, time_enabled |-> 1]>>) : t \in 1..MaxTime}

Late(report) ==
    report.timestamp \in ((MaxSeen - TickThreshold)..(MaxSeen + 1)) \cap 1..MaxTime

InitLate == InitWith({Config(TRUE, 1, 1), Config(FALSE, 1, 1)})

NextLate == \E r \in LateReports : Running /\ Late(r) /\ ProcessReport(r)

SpecLate == InitLate /\ [][NextLate]_vars

-----------------------------------------------------------------------------
(* A finite stream run to its end: the reports of the ticks 1..MaxTime in
   order; the models never get the 2 samples a fit requires *)

InitDrain == InitWith({Config(TRUE, 2, 1), Config(FALSE, 2, 1)})

NextDrain == \E r \in BufferReports : InOrder(r) /\ ProcessReport(r)

SpecDrain == InitDrain /\ [][NextDrain]_vars

\* the source has sent every report of the stream
StreamEnded ==
    /\ seen = 1..MaxTime
    /\ \A r \in BufferReports :
          r.timestamp = MaxTime => Buffered(ticks, r.timestamp, r.target)

-----------------------------------------------------------------------------
(* Engines built on several topologies: the one of the integration tests
   (bclk 100 MHz, ratios 4, 19 and 42 MHz), layers 1900..2100 MHz, a
   smallest frequency of 1950 MHz off the grid of the base clock, ratios in
   decreasing order, a base ratio above the largest one, and a TDP of 0 W *)

Topologies ==
    {CPUTopology(125, 100, 4, 19, 42),
     CPUTopology(125, 10000, 1900, 2000, 2100),
     CPUTopology(125, 10000, 1950, 2000, 2100),
     CPUTopology(125, 10000, 2100, 2000, 1900),
     CPUTopology(125, 10000, 1900, 2100, 2000),
     CPUTopology(0, 10000, 1900, 2000, 2000)}

InitTopology ==
    InitWith({[Config(TRUE, 1, 1) EXCEPT !.cpu_topology = t] : t \in Topologies})

NextTopology == \E r \in BufferReports : Running /\ InOrder(r) /\ ProcessReport(r)

SpecTopology == InitTopology /\ [][NextTopology]_vars

-----------------------------------------------------------------------------
(* cap_power_estimation and apply_intercept_share on two targets capped
   against one raw global power by one model: the powers are in W *)

CapIntercepts == {0, 10}
CapPowers == {0, 10, 30, 40, 50, 60}

CapInputs ==
    {[intercept |-> i, raw_global |-> g, raw_targets |-> <<a, b>>, out |-> <<>>] :
        i \in CapIntercepts, g \in CapPowers, a \in CapPowers, b \in CapPowers}

\* a fitted model with the given intercept
CapModel(intercept) ==
    [PowerModel(2000, 1) EXCEPT
        !.model = [fitted |-> TRUE, fit_intercept |-> TRUE, coef |-> <<1>>,
                   intercept |-> intercept]]

\* the body of the per-target loop of _process_oldest_tick
CapTargets ==
    /\ capping.raw_targets # <<>>
    /\ capping.out = <<>>
    /\ capping' =
          [capping EXCEPT !.out =
              [k \in 1..Len(capping.raw_targets) |->
                  LET pm == CapModel(capping.intercept)
                      c == cap_power_estimation(pm, RInt(capping.raw_targets[k]),
                                                RInt(capping.raw_global))
                  IN [capped |-> c.power,
                      ratio |-> c.ratio,
                      power |-> apply_intercept_share(pm, c.power, c.ratio)]]]
    /\ UNCHANGED <<config, ticks, sensor, models, delivered, formula_reports, raised,
                   processed, seen, overwrote, replay, training>>

InitCap ==
    /\ capping \in CapInputs
    /\ replay = NoReplay
    /\ training = NoTraining
    /\ config = Config(TRUE, 1, 1)
    /\ ticks = <<>>
    /\ sensor = "None"
    /\ models = gen_models_dict(config)
    /\ delivered = submit_reports(<<>>)
    /\ formula_reports = <<>>
    /\ raised = "none"
    /\ processed = <<>>
    /\ seen = {}
    /\ overwrote = FALSE

NextCap == CapTargets

SpecCap == InitCap /\ [][NextCap]_vars

-----------------------------------------------------------------------------
(* A run of an engine, then the same reports fed in the same order to a
   fresh engine with the same configuration. The library's fit is a
   function of its arguments: called by the same tick on the same models,
   it returns the regressions it returned before *)

\* a low RAPL counter on odd ticks, a high one on even ticks: the model
\* fitted on tick 1 is fitted again on tick 2
ReplayReports ==
    {HwpcAll(t, IF t % 2 = 1 THEN LowCounter ELSE HighCounter, 1, 1) : t \in 1..MaxTime}
    \cup {HwpcTarget(t, "t1", <<[CYCLES |-> 1, time_enabled |-> 1]>>) : t \in 1..MaxTime}

\* what the observers and the readers of the models see after a call
Observation(mods, out) ==
    [hashes |-> [l \in DOMAIN mods |-> mods[l].hash],
     ids |-> [l \in DOMAIN mods |-> mods[l].id],
     out |-> out]

\* the regression and the revision of every model: what the fits adopted
Adopted(mods) == [l \in DOMAIN mods |-> [model |-> mods[l].model, id |-> mods[l].id]]

\* the tick process_report(report) hands to _process_oldest_tick, if any,
\* and the models it works on
LibraryCall(report) ==
    LET inserted == InsertReport(ticks, report)
    IN [tick |-> IF ProcessingTriggered(inserted) THEN <<Head(inserted)>> ELSE <<>>,
        before |-> models]

\* process_report(report) with the fit a function of its arguments
DeterministicFit(report) ==
    /\ process_report(report)
    /\ \A f \in replay.fits :
          (f.tick = LibraryCall(report).tick /\ f.before = LibraryCall(report).before)
              => f.after = Adopted(models')

Fitted(report) ==
    [tick |-> LibraryCall(report).tick, before |-> LibraryCall(report).before,
     after |-> Adopted(models')]

\* the source sends a report once
Unfed(report) == \A k \in 1..Len(replay.fed) : replay.fed[k] # report

FirstRun(report) ==
    /\ replay.run = 1
    /\ Running
    /\ InOrder(report)
    /\ Unfed(report)
    /\ DeterministicFit(report)
    /\ replay' = [replay EXCEPT !.fed = Append(@, report),
                                !.trace = Append(@, Observation(models', delivered')),
                                !.fits = @ \cup {Fitted(report)}]

\* Smartwatts.__init__ with the same configuration
FreshEngine ==
    /\ replay.run = 1
    /\ ~Running
    /\ ticks' = <<>>
    /\ sensor' = "None"
    /\ models' = gen_models_dict(config)
    /\ delivered' = submit_reports(<<>>)
    /\ formula_reports' = <<>>
    /\ raised' = "none"
    /\ processed' = <<>>
    /\ seen' = {}
    /\ overwrote' = FALSE
    /\ replay' = [replay EXCEPT !.run = 2]
    /\ UNCHANGED <<config, capping, training>>

SecondRun ==
    /\ replay.run = 2
    /\ replay.pos < Len(replay.fed)
    /\ DeterministicFit(replay.fed[replay.pos + 1])
    /\ replay' = [replay EXCEPT !.pos = @ + 1,
                                !.fits = @ \cup {Fitted(replay.fed[replay.pos + 1])}]

InitReplay == InitWith({Config(TRUE, 1, 2)})

NextReplay ==
    \/ \E r \in ReplayReports : FirstRun(r)
    \/ FreshEngine
    \/ SecondRun

SpecReplay == InitReplay /\ [][NextReplay]_vars

-----------------------------------------------------------------------------
(* The conversion of the RAPL counter: several counters and several
   sampling periods (in ms); the models never get the 2 samples a fit
   requires *)

RaplCounters == {0, HighCounter, 3 * 2^24, 5 * 2^22}
RaplPeriods == {1, 2, 1000}

RaplReports ==
    {HwpcAll(t, c, 1, 1) : t \in 1..MaxTime, c \in RaplCounters}
    \cup {HwpcTarget(t, "t1", <<[CYCLES |-> 1, time_enabled |-> 1]>>) : t \in 1..MaxTime}

InitRapl == InitWith({[Config(TRUE, 2, 1) EXCEPT !.reports_frequency = p] : p \in RaplPeriods})

NextRapl == \E r \in RaplReports : Running /\ InOrder(r) /\ ProcessReport(r)

SpecRapl == InitRapl /\ [][NextRapl]_vars

-----------------------------------------------------------------------------
(* One power model on its own, under store_report_in_history and
   learn_power_model called in any order: windows of 1 to 3 samples, 1 or 2
   samples required, the bounds [0, TDP) of _process_oldest_tick *)

\* revision id up to which the model is fitted again
MaxRevision == 3

\* one frequency layer, 2000 MHz
ModelTopology == CPUTopology(125, 10000, 2000, 2000, 2000)

\* (CYCLES of the running targets, RAPL power in W)
Samples == {<<1, 10>>, <<2, 40>>}

InitModel ==
    InitWith({[Config(TRUE, ms, w) EXCEPT !.cpu_topology = ModelTopology] :
                  ms \in {1, 2}, w \in {1, 2, 3}})

StoreSample(l, s) ==
    /\ models' = [models EXCEPT
                     ![l] = store_report_in_history(@, RInt(s[2]), [CYCLES |-> s[1]])]
    /\ training' = [op |-> "store", candidate |-> UnfittedRegression,
                    dropped |-> HistoryLen(models[l].history) = models[l].history.max_length]
    /\ UNCHANGED <<config, ticks, sensor, delivered, formula_reports, raised,
                   processed, seen, overwrote, capping, replay>>

LearnModel(l) ==
    /\ models[l].id < MaxRevision
    /\ \E o \in learn_power_model(models[l], config.min_samples_required, 0,
                                  config.cpu_topology.tdp) :
          /\ o.raised = "none"
          /\ models' = [models EXCEPT ![l] = o.pm]
          /\ training' = [op |-> "learn", candidate |-> o.candidate, dropped |-> FALSE]
    /\ UNCHANGED <<config, ticks, sensor, delivered, formula_reports, raised,
                   processed, seen, overwrote, capping, replay>>

NextModel ==
    \E l \in DOMAIN models :
        \/ \E s \in Samples : StoreSample(l, s)
        \/ LearnModel(l)

SpecModel == InitModel /\ [][NextModel]_vars

-----------------------------------------------------------------------------
(* The refit of a fitted model: error thresholds of 2 W (the default),
   125/128 W (the error of a prediction of 0 W against the low RAPL power)
   and 131/128 W (that of a prediction of 2 W) *)

Thresholds == {RInt(2), Rat(125, 128), Rat(131, 128)}

InitThreshold == InitWith({[Config(TRUE, 1, 2) EXCEPT !.error_threshold = e] : e \in Thresholds})

NextThreshold == \E r \in Reports : Running /\ InOrder(r) /\ ProcessReport(r)

SpecThreshold == InitThreshold /\ [][NextThreshold]_vars

-----------------------------------------------------------------------------
(* The first ticks of a fresh engine that requires 2 samples and keeps 3 or
   4: every tick carries the report of 'all' and the report of the running
   target t1, and the ticks arrive in order until TrainTicks ticks are
   processed *)

TrainTicks == 3

TrainReports ==
    {HwpcAll(t, c, 1, 1) : t \in 1..MaxTime, c \in {HighCounter, LowCounter}}
    \cup {HwpcTarget(t, "t1", <<[CYCLES |-> 1, time_enabled |-> 1]>>) : t \in 1..MaxTime}

\* the sensor sends each report of a tick once, and both reports of a tick
\* before the next tick
Complete(report) ==
    \/ /\ report.timestamp = MaxSeen
       /\ ~Buffered(ticks, report.timestamp, report.target)
    \/ /\ report.timestamp = MaxSeen + 1
       /\ report.timestamp <= MaxTime
       /\ MaxSeen # 0 => /\ Buffered(ticks, MaxSeen, ALL_TARGET)
                         /\ Buffered(ticks, MaxSeen, "t1")

InitTrain == InitWith({Config(rt, 2, w) : rt \in BOOLEAN, w \in {3, 4}})

NextTrain ==
    \E r \in TrainReports : Len(processed) < TrainTicks /\ Complete(r) /\ ProcessReport(r)

SpecTrain == InitTrain /\ [][NextTrain]_vars

-----------------------------------------------------------------------------
(* Targets that report different sets of core events: t1 reports CYCLES, or
   CYCLES and INSTR; t2 reports CYCLES *)

EventReports ==
    {HwpcAll(t, HighCounter, 1, 1) : t \in 1..MaxTime}
    \cup {HwpcTarget(t, "t1", <<[CYCLES |-> 1, time_enabled |-> 1]>>) : t \in 1..MaxTime}
    \cup {HwpcTarget(t, "t1", <<[CYCLES |-> 1, INSTR |-> 1, time_enabled |-> 1]>>) :
              t \in 1..MaxTime}
    \cup {HwpcTarget(t, "t2", <<[CYCLES |-> 1, time_enabled |-> 1]>>) : t \in 1..MaxTime}

InitEvents == InitWith({Config(TRUE, 1, 2), Config(TRUE, 2, 2)})

NextEvents == \E r \in EventReports : Running /\ InOrder(r) /\ ProcessReport(r)

SpecEvents == InitEvents /\ [][NextEvents]_vars

-----------------------------------------------------------------------------
(* Real time mode, reports up to TickThreshold ticks late, until
   RecreateTicks ticks are processed: a tick re-created by a late report
   reaches the head of the buffer; the models never get the 2 samples a fit
   requires *)

RecreateTicks == 4

RecreateReports ==
    {HwpcAll(t, HighCounter, 1, 1) : t \in 1..MaxTime}
    \cup {HwpcTarget(t, "t1", <<[CYCLES |-> 1, time_enabled |-> 1]>>) : t \in 1..MaxTime}

InitRecreate == InitWith({Config(TRUE, 2, 1)})

NextRecreate ==
    \E r \in RecreateReports :
        Len(processed) < RecreateTicks /\ Late(r) /\ ProcessReport(r)

SpecRecreate == InitRecreate /\ [][NextRecreate]_vars

-----------------------------------------------------------------------------
(* A history window below, and above, the 2 samples a fit requires; t1
   reports CYCLES, or CYCLES and INSTR *)

FitReports ==
    {HwpcAll(t, HighCounter, 1, 1) : t \in 1..MaxTime}
    \cup {HwpcTarget(t, "t1", <<[CYCLES |-> 1, time_enabled |-> 1]>>) : t \in 1..MaxTime}
    \cup {HwpcTarget(t, "t1", <<[CYCLES |-> 1, INSTR |-> 1, time_enabled |-> 1]>>) :
              t \in 1..MaxTime}

InitFit == InitWith({Config(TRUE, 2, 1), Config(TRUE, 2, 3)})

NextFit == \E r \in FitReports : Running /\ InOrder(r) /\ ProcessReport(r)

SpecFit == InitFit /\ [][NextFit]_vars

-----------------------------------------------------------------------------
(* Properties *)

\* the reports the last process_report passed to observer ob
Out(ob) == delivered[ob]
IsTargetReport(r) == r.target # RAPL_GROUP /\ r.target # GLOBAL_GROUP
\* the sum of the powers of the per-target reports of a delivery
RECURSIVE TargetPowerSum(_)
TargetPowerSum(d) ==
    IF d = <<>> THEN RZero
    ELSE RAdd(IF IsTargetReport(Head(d)) THEN Head(d).power ELSE RZero,
              TargetPowerSum(Tail(d)))
\* a delivery with per-target reports starts with the RAPL and the global report
HasTargetReports(d) == \E i \in 1..Len(d) : IsTargetReport(d[i])

C2_TickOrdering ==
    \A i, j \in 1..Len(processed) :
        (i < j /\ processed[i].outputs > 0 /\ processed[j].outputs > 0)
            => ~(processed[j].timestamp < processed[i].timestamp)

\* C3: in a delivery with per-target reports, the sum of the target powers
\* is at most the raw global power predicted for the tick.
C3_Accounting ==
    \A ob \in Observers :
        HasTargetReports(Out(ob)) => RLe(TargetPowerSum(Out(ob)), Out(ob)[2].predict)

\* two targets share a positive global power under a model with a positive
\* intercept
C3_Witness ==
    /\ Len(Out(1)) = 4
    /\ RLt(RZero, Out(1)[3].ratio) /\ RLt(RZero, Out(1)[4].ratio)
    /\ Out(1)[3].formula.hash.of.intercept > 0
    /\ TargetPowerSum(Out(1)) = Out(1)[2].predict

\* C4 as stated: the sum of the target powers of a tick is at most the RAPL
\* power measured for the tick.
C4_BoundedByRapl ==
    \A ob \in Observers :
        HasTargetReports(Out(ob)) => RLe(TargetPowerSum(Out(ob)), Out(ob)[1].power)

\* C4 amended: the sum of the target powers of a tick is at most the RAPL
\* power plus the model error carried by the tick's global report, and at
\* most the RAPL power when the global estimation does not exceed it.
C4_BoundedByRaplPlusError ==
    \A ob \in Observers :
        HasTargetReports(Out(ob)) =>
            /\ RLe(TargetPowerSum(Out(ob)), RAdd(Out(ob)[1].power, Out(ob)[2].error))
            /\ RLe(Out(ob)[2].power, Out(ob)[1].power)
                   => RLe(TargetPowerSum(Out(ob)), Out(ob)[1].power)

\* the targets get more than the RAPL power: the model overestimates
C4_Witness ==
    /\ HasTargetReports(Out(1))
    /\ RLt(Out(1)[1].power, TargetPowerSum(Out(1)))
    /\ TargetPowerSum(Out(1)) = RAdd(Out(1)[1].power, Out(1)[2].error)

C6_LayerSelection ==
    /\ raised # "KeyError"
    /\ \A i \in 1..Len(formula_reports) :
        LET F == formula_reports[i].pkg_frequency.value
            L == formula_reports[i].layer_frequency
            below == {K \in DOMAIN models : RLe(RInt(K), F)}
        IN /\ L \in DOMAIN models
           /\ IF below = {} THEN \A K \in DOMAIN models : L <= K
              ELSE L \in below /\ \A K \in below : K <= L

\* C7 as stated: a model's revision id never decreases and increments at a
\* step if and only if its hash changes at that step.
C7_RevisionIffHashChanges ==
    [][\A l \in DOMAIN models :
          /\ models'[l].id >= models[l].id
          /\ (models'[l].id > models[l].id) <=> (models'[l].hash # models[l].hash)]_vars

\* C7 amended: a model's revision id never decreases and grows by at most
\* one per step; it increments whenever the hash changes, and a step that
\* keeps the revision id keeps the hash and the regression.
C7_RevisionOnHashChange ==
    [][\A l \in DOMAIN models :
          /\ models'[l].id \in {models[l].id, models[l].id + 1}
          /\ (models'[l].hash # models[l].hash) => (models'[l].id = models[l].id + 1)
          /\ (models'[l].id = models[l].id)
                => /\ models'[l].hash = models[l].hash
                   /\ models'[l].model = models[l].model]_vars

\* a model has been refitted
C7_Witness == \E l \in DOMAIN models : models[l].id = 2

\* C8: every fitted model has 0 <= intercept < TDP.
C8_InterceptBounds ==
    \A l \in DOMAIN models :
        models[l].model.fitted
            => /\ 0 <= models[l].model.intercept
               /\ models[l].model.intercept < config.cpu_topology.tdp

\* a fit with a fitted, non-zero intercept has been adopted
C8_Witness ==
    \E l \in DOMAIN models :
        /\ models[l].model.fitted
        /\ models[l].model.fit_intercept
        /\ models[l].model.intercept > 0

\* C9: ingesting a report whose (timestamp, target) is buffered replaces
\* that report, adds no tick and no entry, and leaves every other buffered
\* entry as it was.
C9_DuplicateOverwrites ==
    [][\A r \in JitterReports :
          (Buffered(ticks, r.timestamp, r.target) /\ ProcessReport(r))
              => /\ Len(ticks') = Len(ticks)
                 /\ \A i \in 1..Len(ticks) :
                       /\ ticks'[i].timestamp = ticks[i].timestamp
                       /\ Len(ticks'[i].reports) = Len(ticks[i].reports)
                       /\ \A k \in 1..Len(ticks[i].reports) :
                             IF /\ ticks[i].timestamp = r.timestamp
                                /\ ticks[i].reports[k].target = r.target
                             THEN ticks'[i].reports[k] = [target |-> r.target, report |-> r]
                             ELSE ticks'[i].reports[k] = ticks[i].reports[k]]_vars

\* a report with a low RAPL counter has replaced the buffered report of
\* 'all' in a tick that also holds a report of t1
C9_Witness ==
    /\ overwrote
    /\ \E i \in 1..Len(ticks) :
          /\ Len(ticks[i].reports) = 2
          /\ \E k \in 1..2 :
                /\ ticks[i].reports[k].target = ALL_TARGET
                /\ ticks[i].reports[k].report.rapl.rows[1].RAPL_ENERGY_PKG = LowCounter

\* C10: processing a tick that holds no report of 'all' delivers nothing,
\* changes no model and removes the tick from the buffer.
C10_MissingAll ==
    [][(/\ Len(processed') = Len(processed) + 1
        /\ IndexOf(Head(ticks).reports, ALL_TARGET) = 0)
          => /\ \A ob \in Observers : delivered'[ob] = <<>>
             /\ formula_reports' = <<>>
             /\ models' = models
             /\ raised' = "none"
             /\ processed'[Len(processed')] =
                    [timestamp |-> Head(ticks).timestamp, outputs |-> 0, stored |-> 0]
             /\ Len(ticks') = Len(ticks)
             /\ SubSeq(ticks', 1, Len(ticks) - 1) = Tail(ticks)
             /\ \A i \in 1..Len(ticks') : ticks'[i].timestamp # Head(ticks).timestamp]_vars

\* a tick holding only the report of t1 has been processed
C10_Witness ==
    /\ processed # <<>>
    /\ processed[Len(processed)].outputs = 0
    /\ raised = "none"
    /\ \A ob \in Observers : Out(ob) = <<>>
    /\ Len(ticks) = TickThreshold

\* a formula diagnostic among the reports of a delivery
IsFormulaReport(r) == "layer_frequency" \in DOMAIN r

\* C11: the delivery of a tick processed to its end is the RAPL report, the
\* global report, one report per target in insertion order, then the
\* formula diagnostic.
C11_DeliveryOrder ==
    \A ob \in Observers :
        formula_reports # <<>> =>
            LET d == Out(ob)
                n == Len(d)
            IN /\ n >= 3
               /\ d[1].target = RAPL_GROUP
               /\ d[2].target = GLOBAL_GROUP
               /\ \A i \in 3..(n - 1) : ~IsFormulaReport(d[i]) /\ IsTargetReport(d[i])
               /\ IsFormulaReport(d[n])

\* C12: a delivery with a global report (the tick has an 'all' report,
\* running targets and a fitted model) holds exactly one formula
\* diagnostic, any other delivery none.
C12_OneFormulaReport ==
    \A ob \in Observers :
        LET d == Out(ob)
            diagnostics == {i \in 1..Len(d) : IsFormulaReport(d[i])}
        IN IF Len(d) >= 2 /\ d[2].target = GLOBAL_GROUP
           THEN Cardinality(diagnostics) = 1
           ELSE diagnostics = {}

\* a report of the tick lacks an index the processing looks up
MissingIndex(reports) ==
    \E i \in 1..Len(reports) :
        LET r == reports[i].report
        IN IF r.target = ALL_TARGET
           THEN \/ ~r.rapl.socket
                \/ config.rapl_event \notin Columns(r.rapl)
                \/ ~r.msr.socket
           ELSE ~r.core.socket

\* C13: processing a tick with a missing index removes the tick from the
\* buffer, delivers no report and leaves every model (regression, hash,
\* revision id, history) unchanged.
C13_MissingIndexAborts ==
    [][(/\ Len(processed') = Len(processed) + 1
        /\ MissingIndex(Head(ticks).reports))
          => /\ \A ob \in Observers : delivered'[ob] = <<>>
             /\ formula_reports' = <<>>
             /\ models' = models
             /\ Len(ticks') = Len(ticks)
             /\ SubSeq(ticks', 1, Len(ticks) - 1) = Tail(ticks)]_vars

\* the processing of a tick has ended with the missing index exception
\* after an earlier tick had fitted a model
C13_Witness ==
    /\ raised = "SmartWattsException"
    /\ Len(processed) = 2
    /\ \E l \in DOMAIN models : models[l].model.fitted
    /\ \A ob \in Observers : Out(ob) = <<>>

\* C14: no missing index exception leaves process_report.
C14_NoExceptionEscapes == raised # "SmartWattsException"

Min(a, b) == IF a <= b THEN a ELSE b
Max(a, b) == IF a >= b THEN a ELSE b

\* no processed timestamp was processed twice or is buffered again
NoTickRecreated ==
    /\ \A i, j \in 1..Len(processed) :
          i # j => processed[i].timestamp # processed[j].timestamp
    /\ \A i \in 1..Len(processed) : TickIndex(ticks, processed[i].timestamp) = 0

C16_OnlyRaplReport ==
    [][(/\ Len(processed') = Len(processed) + 1
        /\ Len(Head(ticks).reports) = 1
        /\ Head(ticks).reports[1].target = ALL_TARGET)
          => /\ \A ob \in Observers :
                   /\ Len(delivered'[ob]) = 1
                   /\ delivered'[ob][1].target = RAPL_GROUP
                   /\ delivered'[ob][1].ratio = RInt(1)
                   /\ delivered'[ob][1].error = RZero
                   /\ delivered'[ob][1].timestamp = Head(ticks).timestamp
             /\ processed'[Len(processed')].outputs = 1
             /\ formula_reports' = <<>>
             /\ models' = models
             /\ raised' = "none"]_vars

\* real time mode, 4 ticks with only the report of 'all': 2 ticks are
\* processed, each delivered one RAPL report, no model was touched
C16_Witness ==
    /\ config.real_time_mode
    /\ Cardinality(seen) = 4
    /\ Len(processed) = 2
    /\ processed[1].outputs = 1 /\ processed[2].outputs = 1
    /\ models = gen_models_dict(config)
    /\ \A i \in 1..Len(ticks) : Len(ticks[i].reports) = 1
    /\ \A ob \in Observers : Len(Out(ob)) = 1 /\ Out(ob)[1].target = RAPL_GROUP

\* the tick of timestamp t has been processed
Processed(t) == \E i \in 1..Len(processed) : processed[i].timestamp = t

\* C17: once the stream has ended the buffer is drained: it is empty and
\* every ingested tick has been processed.
C17_Drained ==
    StreamEnded => (ticks = <<>> /\ \A t \in seen : Processed(t))

\* TDP, base clock and ratios are positive and min <= base <= max
ValidTopology(topo) ==
    /\ topo.tdp > 0
    /\ RLt(RZero, topo.freq_bclk)
    /\ RLt(RZero, topo.ratio_min)
    /\ RLe(topo.ratio_min, topo.ratio_base)
    /\ RLe(topo.ratio_base, topo.ratio_max)

\* C18: no engine is built, and so none ingests a report, on a topology
\* with min > base, base > max or a value <= 0.
C18_InvalidTopologyRejected ==
    seen # {} => ValidTopology(config.cpu_topology)

\* C19: on a valid topology the supported frequencies start at the
\* smallest frequency, step by the base clock and end at the largest
\* frequency, and the registry has one model per supported frequency.
C19_SupportedFrequencies ==
    ValidTopology(config.cpu_topology) =>
        LET topo == config.cpu_topology
            f == get_supported_frequencies(topo)
        IN /\ f # <<>>
           /\ RInt(f[1]) = get_min_frequency(topo)
           /\ RInt(f[Len(f)]) = get_max_frequency(topo)
           /\ \A i \in 1..(Len(f) - 1) : RInt(f[i + 1] - f[i]) = topo.freq_bclk
           /\ DOMAIN models = SeqToSet(f)

\* the ratios, the capped powers and the powers with the intercept share
CapRatios == [k \in 1..Len(capping.out) |-> capping.out[k].ratio]
CapCapped == [k \in 1..Len(capping.out) |-> capping.out[k].capped]
CapShared == [k \in 1..Len(capping.out) |-> capping.out[k].power]

\* C20 as stated: the ratios and the powers of targets capped against one
\* raw global power are >= 0 and the ratios sum to at most 1.
C20_CapRatios ==
    capping.out # <<>> =>
        /\ \A k \in 1..Len(capping.out) :
              /\ RLe(RZero, capping.out[k].ratio)
              /\ RLe(RZero, capping.out[k].capped)
              /\ RLe(RZero, capping.out[k].power)
        /\ RLe(RSum([k \in 1..Len(capping.out) |-> capping.out[k].ratio]), RInt(1))

\* C20 amended: the ratios and the powers are >= 0 (the intercept being
\* >= 0); the ratios sum to at most 1, and the powers to at most the raw
\* global power, when the capped powers sum to at most the raw global power
\* less the intercept.
C20_CapRatiosWithinGlobal ==
    capping.out # <<>> =>
        /\ \A k \in 1..Len(capping.out) :
              /\ RLe(RZero, capping.out[k].ratio)
              /\ RLe(RZero, capping.out[k].capped)
              /\ RLe(RZero, capping.out[k].power)
        /\ RLe(RSum(CapCapped), RSub(RInt(capping.raw_global), RInt(capping.intercept)))
              => /\ RLe(RSum(CapRatios), RInt(1))
                 /\ RLe(RSum(CapShared), RInt(capping.raw_global))

\* intercept 10 W, raw global 50 W, raw targets 30 W and 40 W: the ratios
\* 1/2 and 3/4 sum to 5/4, the powers are 25 W and 37.5 W
C20_Witness ==
    /\ capping.intercept = 10
    /\ capping.raw_global = 50
    /\ capping.raw_targets = <<30, 40>>
    /\ capping.out # <<>>
    /\ RSum(CapRatios) = Rat(5, 4)
    /\ CapShared = <<RInt(25), Rat(75, 2)>>

RaplCounter(tick) ==
    tick.reports[IndexOf(tick.reports, ALL_TARGET)].report.rapl.rows[1][config.rapl_event]

\* C22: the power of the RAPL report emitted for a tick is (C * 2^-32) / P
\* watts, C the RAPL counter of the tick's 'all' report and P the sampling
\* period in seconds: power * P * 2^16 * 2^16 = C.
C22_RaplConversion ==
    [][\A r \in RaplReports :
          (ProcessingTriggered(InsertReport(ticks, r)) /\ InOrder(r) /\ ProcessReport(r))
              => \A ob \in Observers : \A k \in 1..Len(delivered'[ob]) :
                    delivered'[ob][k].target = RAPL_GROUP
                        => RMul(RMul(RMul(delivered'[ob][k].power,
                                          Rat(config.reports_frequency, 1000)),
                                     RInt(2^16)), RInt(2^16))
                             = RInt(RaplCounter(Head(InsertReport(ticks, r))))]_vars

\* a RAPL report of 3/256 W was delivered: counter 3 * 2^24 over 1 s
C22_Witness ==
    /\ config.reports_frequency = 1000
    /\ \E k \in 1..Len(Out(1)) :
          Out(1)[k].target = RAPL_GROUP /\ Out(1)[k].power = Rat(3, 256)

\* the tick that process_report(report) hands to _process_oldest_tick
PoppedTick(report) == Head(InsertReport(ticks, report))

\* the tick has an 'all' report and a target with core events
Attributable(tick) ==
    /\ IndexOf(tick.reports, ALL_TARGET) # 0
    /\ \E i \in 1..Len(tick.reports) :
          /\ tick.reports[i].target # ALL_TARGET
          /\ tick.reports[i].report.core.socket
          /\ Columns(tick.reports[i].report.core) \ TimeEvents # {}

\* the layer of the model selected for the tick
SelectedLayer(tick) ==
    get_power_model(
        gen_msr_events_group(tick.reports[IndexOf(tick.reports, ALL_TARGET)].report).value).layer

\* the feature vector of the running targets of the tick
GlobalFeatures(tick) ==
    extract_events_value(
        gen_agg_core_report_from_running_targets(
            RemoveAt(tick.reports, IndexOf(tick.reports, ALL_TARGET))).value)

\* queue q after one more element x, at most n kept
Pushed(q, n, x) == IF Len(q) < n THEN q \o <<x>> ELSE Tail(q) \o <<x>>

\* C23: a processed tick whose selected model has never been fitted (and
\* whose global_core is not empty) appends exactly one sample (rapl_power,
\* global_core) to the history of that model, attempts one fit with the
\* bounds [0, TDP), and emits the RAPL report only: no global report, no
\* target report, no formula report.
C23_NotFittedTrains ==
    [][\A r \in Reports :
          (/\ ProcessingTriggered(InsertReport(ticks, r))
           /\ Attributable(PoppedTick(r))
           /\ SelectedLayer(PoppedTick(r)) \in DOMAIN models
           /\ ~models[SelectedLayer(PoppedTick(r))].model.fitted
           /\ InOrder(r) /\ ProcessReport(r))
              => LET l == SelectedLayer(PoppedTick(r))
                 IN /\ \A ob \in Observers :
                          /\ Len(delivered'[ob]) = 1
                          /\ delivered'[ob][1].target = RAPL_GROUP
                          /\ delivered'[ob][1].timestamp = PoppedTick(r).timestamp
                    /\ formula_reports' = <<>>
                    /\ raised' = "none"
                    /\ models'[l].history.X =
                          Pushed(models[l].history.X, config.history_window_size,
                                 GlobalFeatures(PoppedTick(r)))
                    /\ models'[l].history.y =
                          Pushed(models[l].history.y, config.history_window_size,
                                 delivered'[1][1].power)
                    /\ \/ /\ models'[l].model = models[l].model
                          /\ models'[l].id = models[l].id
                       \/ /\ models'[l].model.fitted
                          /\ models'[l].id = models[l].id + 1
                          /\ 0 <= models'[l].model.intercept
                          /\ models'[l].model.intercept < config.cpu_topology.tdp
                    /\ \A k \in DOMAIN models : k # l => models'[k] = models[k]]_vars

\* the first processed tick met an unfitted model: one sample stored, the
\* fit adopted, the RAPL report alone delivered
C23_Witness ==
    /\ Len(processed) = 1
    /\ \E l \in DOMAIN models :
          /\ HistoryLen(models[l].history) = 1
          /\ models[l].id = 1
    /\ Len(Out(1)) = 1
    /\ Out(1)[1].target = RAPL_GROUP

\* the intercept is in [0, TDP), the range _process_oldest_tick asks for
InRange(intercept) == 0 <= intercept /\ intercept < config.cpu_topology.tdp

\* C24: learn_power_model leaves the regression, the hash and the revision id
\* of the model as they were whenever the history holds fewer than
\* min_samples entries (no fit is made) or the intercept of the candidate
\* regression is outside [min_intercept, max_intercept); it never modifies
\* the history.
C24_LearnFrame ==
    [][training'.op = "learn"
          => \A l \in DOMAIN models :
                /\ models'[l].history = models[l].history
                /\ HistoryLen(models[l].history) < config.min_samples_required
                      => (models'[l] = models[l] /\ ~training'.candidate.fitted)
                /\ (training'.candidate.fitted /\ ~InRange(training'.candidate.intercept))
                      => models'[l] = models[l]]_vars

\* a first fit was made on enough samples and rejected for its intercept:
\* the model is still unfitted, its hash 'uninitialized', its revision 0
C24_Witness ==
    /\ training.op = "learn"
    /\ training.candidate.fitted
    /\ training.candidate.intercept = config.cpu_topology.tdp
    /\ \E l \in DOMAIN models :
          /\ HistoryLen(models[l].history) >= config.min_samples_required
          /\ ~models[l].model.fitted
          /\ models[l].hash = UninitializedHash
          /\ models[l].id = 0

\* C25: a regression adopted by learn_power_model while the history holds
\* fewer entries than its capacity has intercept 0 and is accepted (the TDP
\* is positive); a regression adopted with another intercept comes from a
\* fit made while the history is exactly at capacity.
C25_InterceptOnlyAtCapacity ==
    [][(training'.op = "learn" /\ training'.candidate.fitted)
          => \A l \in DOMAIN models :
                /\ HistoryLen(models[l].history) < config.history_window_size
                      => /\ training'.candidate.intercept = 0
                         /\ models'[l].model = training'.candidate
                         /\ models'[l].id = models[l].id + 1
                /\ (models'[l].id # models[l].id /\ models'[l].model.intercept # 0)
                      => HistoryLen(models[l].history) = config.history_window_size]_vars

\* a fit below capacity was adopted, with intercept 0
C25_Witness ==
    /\ training.op = "learn"
    /\ training.candidate.fitted
    /\ \E l \in DOMAIN models :
          /\ HistoryLen(models[l].history) < config.history_window_size
          /\ models[l].model = training.candidate
          /\ models[l].model.intercept = 0
          /\ models[l].id >= 1

\* the last n elements of q, all of q if it has fewer
LastN(q, n) == IF Len(q) > n THEN SubSeq(q, Len(q) - n + 1, Len(q)) ELSE q

\* C26: after any sequence of stores (and fits) the two queues of a model's
\* history have one length, at most history_window_size, which no step
\* decreases; a store appends the pair (feature vector, reference power) and,
\* into a full history, drops the oldest pair: the history holds the most
\* recent history_window_size pairs in arrival order.
C26_HistoryWindow ==
    [][\A l \in DOMAIN models :
          /\ Len(models'[l].history.X) = Len(models'[l].history.y)
          /\ Len(models'[l].history.X) <= config.history_window_size
          /\ Len(models'[l].history.X) >= Len(models[l].history.X)
          /\ \A s \in Samples :
                StoreSample(l, s)
                    => /\ models'[l].history.X =
                             LastN(models[l].history.X \o <<(<<s[1]>>)>>,
                                   config.history_window_size)
                       /\ models'[l].history.y =
                             LastN(models[l].history.y \o <<RInt(s[2])>>,
                                   config.history_window_size)]_vars

\* a store into a full history of 2 pairs dropped the oldest pair
C26_Witness ==
    /\ training.op = "store"
    /\ training.dropped
    /\ config.history_window_size = 2
    /\ \E l \in DOMAIN models :
          /\ models[l].history.X = <<(<<1>>), (<<2>>)>>
          /\ models[l].history.y = <<RInt(10), RInt(40)>>

\* C27: a processed tick whose selected model is fitted stores exactly one
\* sample (rapl_power, global_core) into the history of that model, after
\* the target reports are computed (they carry the hash the model had); the
\* model is fitted again if and only if |rapl_power - raw_global_power| is
\* strictly greater than error_threshold, and otherwise its regression, its
\* hash and its revision id are left as they were.
C27_RefitAboveThreshold ==
    [][\A r \in Reports :
          (/\ ProcessingTriggered(InsertReport(ticks, r))
           /\ Attributable(PoppedTick(r))
           /\ SelectedLayer(PoppedTick(r)) \in DOMAIN models
           /\ models[SelectedLayer(PoppedTick(r))].model.fitted
           /\ InOrder(r) /\ ProcessReport(r))
              => LET l == SelectedLayer(PoppedTick(r))
                     out == delivered'[1]
                     model_error == RAbs(RSub(out[1].power, out[2].power))
                     stored == [models[l] EXCEPT !.history = models'[l].history]
                 IN /\ raised' = "none"
                    /\ Len(out) >= 3
                    /\ out[1].target = RAPL_GROUP
                    /\ out[2].target = GLOBAL_GROUP
                    /\ \A k \in 2..Len(out) : out[k].formula = ModelFormula(models[l].hash)
                    /\ models'[l].history.X =
                          Pushed(models[l].history.X, config.history_window_size,
                                 GlobalFeatures(PoppedTick(r)))
                    /\ models'[l].history.y =
                          Pushed(models[l].history.y, config.history_window_size,
                                 out[1].power)
                    /\ RLe(model_error, config.error_threshold) => models'[l] = stored
                    /\ RLt(config.error_threshold, model_error)
                          => \E o \in learn_power_model(stored, config.min_samples_required,
                                                        0, config.cpu_topology.tdp) :
                                models'[l] = o.pm]_vars

\* the second tick was predicted with an error equal to the threshold: the
\* sample is stored and the model keeps revision 1
C27_Witness ==
    /\ Len(processed) = 2
    /\ Len(Out(1)) >= 3
    /\ Out(1)[2].target = GLOBAL_GROUP
    /\ Out(1)[2].error = config.error_threshold
    /\ \E l \in DOMAIN models :
          /\ HistoryLen(models[l].history) = 2
          /\ models[l].id = 1

\* a fitted model was fitted again: its prediction was more than the
\* threshold away from the RAPL power
C27_Refitted ==
    /\ Len(processed) = 2
    /\ Len(Out(1)) >= 3
    /\ RLt(config.error_threshold, Out(1)[2].error)
    /\ \E l \in DOMAIN models : models[l].id = 2

\* the fit of the step returned a regression that is adopted
SuccessfulFit(t) == t.op = "learn" /\ t.candidate.fitted /\ InRange(t.candidate.intercept)

\* C28: a model is unfitted with revision 0 and hash 'uninitialized', or
\* fitted with a revision >= 1 and a digest as hash; every successful fit
\* adopts the regression and increments the revision by exactly 1, nothing
\* else changes the revision, a rejected fit changes nothing, and a fitted
\* model stays fitted: its hash is never 'uninitialized' again and predict
\* does not raise NotFittedError again.
C28_ModelStateMachine ==
    [][\A l \in DOMAIN models :
          /\ models[l].model.fitted <=> models[l].id >= 1
          /\ models[l].model.fitted <=> models[l].hash # UninitializedHash
          /\ SuccessfulFit(training')
                => /\ models'[l].id = models[l].id + 1
                   /\ models'[l].model = training'.candidate
          /\ ~SuccessfulFit(training')
                => /\ models'[l].id = models[l].id
                   /\ models'[l].model = models[l].model
                   /\ models'[l].hash = models[l].hash
          /\ (training'.op = "learn" /\ ~SuccessfulFit(training'))
                => models'[l] = models[l]
          /\ models[l].model.fitted
                => /\ models'[l].model.fitted
                   /\ models'[l].hash # UninitializedHash
                   /\ compute_power_estimation(models'[l], [CYCLES |-> 1]).raised
                          # "NotFittedError"]_vars

\* a fitted model was fitted again and is at revision 2
C28_Witness ==
    /\ SuccessfulFit(training)
    /\ \E l \in DOMAIN models :
          /\ models[l].id = 2
          /\ models[l].model = training.candidate

\* the targets of the reports of a delivery, in order
Targets(d) == [k \in 1..Len(d) |-> d[k].target]

C30_UniformFeatures ==
    /\ \A l \in DOMAIN models : Homogeneous(models[l].history.X)
    /\ raised # "ValueError"

\* C31: each timestamp is processed at most once, also when a report for it
\* arrives after its tick was processed: no two processing steps are for
\* one timestamp.
C31_ProcessedOnce ==
    \A i \in 1..Len(processed) : \A j \in 1..Len(processed) :
        processed[i].timestamp = processed[j].timestamp => i = j

\* C32: the formula diagnostic of a tick carries the hash, revision id,
\* intercept and coefficients the selected model had when it produced the
\* tick's estimates, and the global and target reports of the tick carry the
\* same hash, also when the tick refits the model.
C32_DiagnosticOfModelUsed ==
    [][formula_reports' # <<>> =>
          LET f == formula_reports'[1]
              used == models[f.layer_frequency]
          IN /\ f.target = used.hash
             /\ f.id = used.id
             /\ f.intercept = used.model.intercept
             /\ f.coef = used.model.coef
             /\ \A ob \in Observers : \A i \in 2..Len(delivered'[ob]) :
                    delivered'[ob][i].formula.hash = f.target]_vars

\* the package frequency of the tick, from the APERF/MPERF averages of its
\* 'all' report
TickFrequency(tick) ==
    compute_pkg_frequency(
        gen_msr_events_group(tick.reports[IndexOf(tick.reports, ALL_TARGET)].report).value)

\* l is the highest layer not above the package frequency of the tick
LayerOfTick(l, tick) ==
    /\ IndexOf(tick.reports, ALL_TARGET) # 0
    /\ LET F == TickFrequency(tick)
       IN IF F.finite
          THEN /\ RLe(RInt(l), F.value)
               /\ \A k \in DOMAIN models : k > l => RLt(F.value, RInt(k))
          ELSE \A k \in DOMAIN models : k <= l

\* C33: a processing step changes (regression, hash, revision id, history)
\* at most the model of the layer selected from the APERF/MPERF average of
\* the processed tick, its reports carry the hash of no other model and its
\* formula diagnostic names that layer; a report that triggers no processing
\* changes no model.
C33_OneModelPerTick ==
    [][\A r \in LayerReports :
          (InOrder(r) /\ ProcessReport(r)) =>
              IF ProcessingTriggered(InsertReport(ticks, r))
              THEN /\ \A l \in DOMAIN models :
                        models'[l] # models[l] => LayerOfTick(l, PoppedTick(r))
                   /\ \A ob \in Observers : \A k \in 1..Len(delivered'[ob]) :
                        delivered'[ob][k].formula.name = "model" =>
                            \E l \in DOMAIN models :
                                /\ LayerOfTick(l, PoppedTick(r))
                                /\ delivered'[ob][k].formula.hash = models[l].hash
                   /\ \A i \in 1..Len(formula_reports') :
                        LayerOfTick(formula_reports'[i].layer_frequency, PoppedTick(r))
              ELSE models' = models]_vars

\* ticks of two layers were processed: the models of 1900 and 2100 MHz are
\* fitted, the one of 2000 MHz was never touched
C33_Witness ==
    /\ Len(processed) = 2
    /\ models[1900].id >= 1
    /\ models[2100].id >= 1
    /\ models[2000] = PowerModel(2000, config.history_window_size)

\* the number of samples ever stored into the model of layer l
StoredInto(l) == Cardinality({i \in 1..Len(processed) : processed[i].stored = l})

\* C34: for every model, revision id = 0 iff the hash is "uninitialized" iff
\* the regression is unfitted; a fitted model has at least
\* min_samples_required samples in its history and a revision id not above
\* the number of samples ever stored into it.
C34_ModelInvariant ==
    \A l \in DOMAIN models :
        LET pm == models[l]
        IN /\ (pm.id = 0) <=> (pm.hash = UninitializedHash)
           /\ (pm.id = 0) <=> ~pm.model.fitted
           /\ pm.model.fitted =>
                 /\ HistoryLen(pm.history) >= config.min_samples_required
                 /\ pm.id <= StoredInto(l)

\* a model refitted on each of the two samples stored into it
C34_Witness ==
    \E l \in DOMAIN models :
        models[l].model.fitted /\ models[l].id = 2 /\ StoredInto(l) = 2

\* C35: with a history window below min_samples_required no model is ever
\* fitted and only RAPL reports are emitted; with min_samples_required below
\* the window and a positive TDP, a model that was selected on
\* min_samples_required processed ticks with running targets is fitted.
C35_FitReachability ==
    /\ config.history_window_size < config.min_samples_required =>
          /\ \A l \in DOMAIN models : ~models[l].model.fitted
          /\ formula_reports = <<>>
          /\ \A ob \in Observers : \A k \in 1..Len(Out(ob)) :
                Out(ob)[k].target = RAPL_GROUP
    /\ (config.min_samples_required < config.history_window_size
           /\ config.cpu_topology.tdp > 0) =>
          \A l \in DOMAIN models :
              StoredInto(l) >= config.min_samples_required => models[l].model.fitted
====
